---- MODULE Spec2Model ----
(* CDOE Feedback Analytics Dashboard (src/app.py): one run of the Streamlit   *)
(* script, from the upload of the feedback files to the five report tabs.     *)
(* Text is modelled as a sequence of one-character strings, so that lower(),  *)
(* strip() and the substring test `in` are computed and not assumed.          *)
EXTENDS Integers, Sequences, FiniteSets, TLC

VARIABLES pc, files, dfs, data, modes, files_sel, filtered, subject_cols, result

vars == <<pc, files, dfs, data, modes, files_sel, filtered, subject_cols, result>>

(* ------------------------------ bounds ---------------------------------- *)
\* rows of one uploaded file
MaxRows == 2
\* files of one upload
MaxFiles == 2
\* words an origin identifier is assembled from
MaxTokens == 2

(* ------------------------------- text ----------------------------------- *)
UpperChars == <<"A", "B", "C", "D", "E", "F", "G", "H", "I", "J", "K", "L", "M", "N", "O", "P", "Q", "R", "S", "T", "U", "V", "W", "X", "Y", "Z">>
LowerChars == <<"a", "b", "c", "d", "e", "f", "g", "h", "i", "j", "k", "l", "m", "n", "o", "p", "q", "r", "s", "t", "u", "v", "w", "x", "y", "z">>
\* the characters of the model's texts, in code point order
AsciiOrder == <<" ", "-", ".", "0", "1", "2", "3", "4", "5", "6", "7", "8", "9", "A", "B", "C", "D", "E", "F", "G", "H", "I", "J", "K", "L", "M", "N", "O", "P", "Q", "R", "S", "T", "U", "V", "W", "X", "Y", "Z", "_", "a", "b", "c", "d", "e", "f", "g", "h", "i", "j", "k", "l", "m", "n", "o", "p", "q", "r", "s", "t", "u", "v", "w", "x", "y", "z">>

Code(c) == CHOOSE k \in 1..Len(AsciiOrder) : AsciiOrder[k] = c

LowerChar(c) ==
    IF \E k \in 1..Len(UpperChars) : UpperChars[k] = c
    THEN LowerChars[CHOOSE k \in 1..Len(UpperChars) : UpperChars[k] = c]
    ELSE c

\* str.lower()
Lower(s) == [i \in 1..Len(s) |-> LowerChar(s[i])]

\* k in s
Contains(k, s) ==
    \E i \in 1..(Len(s) - Len(k) + 1) : \A j \in 1..Len(k) : s[i + j - 1] = k[j]

\* str.strip(): leading and trailing blanks removed
Strip(s) ==
    LET inked == {i \in 1..Len(s) : s[i] # " "}
    IN  IF inked = {} THEN <<>>
        ELSE LET lo == CHOOSE i \in inked : \A j \in inked : i <= j
                 hi == CHOOSE i \in inked : \A j \in inked : j <= i
             IN  [i \in 1..(hi - lo + 1) |-> s[lo + i - 1]]

\* a < b in Python's string order
RECURSIVE TextLess(_, _)
TextLess(a, b) ==
    IF a = <<>> THEN b # <<>>
    ELSE IF b = <<>> THEN FALSE
    ELSE IF a[1] # b[1] THEN Code(a[1]) < Code(b[1])
    ELSE TextLess(Tail(a), Tail(b))

Digits == <<"0", "1", "2", "3", "4", "5", "6", "7", "8", "9">>

IsDigit(c) == \E k \in 1..Len(Digits) : Digits[k] = c

DigitVal(c) == (CHOOSE k \in 1..Len(Digits) : Digits[k] = c) - 1

RECURSIVE DigitsVal(_)
DigitsVal(s) ==
    IF s = <<>> THEN 0 ELSE 10 * DigitsVal(SubSeq(s, 1, Len(s) - 1)) + DigitVal(s[Len(s)])

\* str(n) of a non-negative integer
RECURSIVE IntText(_)
IntText(n) ==
    IF n < 10 THEN <<Digits[n + 1]>> ELSE IntText(n \div 10) \o <<Digits[(n % 10) + 1]>>

kw_distance == <<"d", "i", "s", "t", "a", "n", "c", "e">>
kw_dtl == <<"d", "t", "l">>
kw_online == <<"o", "n", "l", "i", "n", "e">>
Distance == <<"D", "i", "s", "t", "a", "n", "c", "e">>
DTL == <<"D", "T", "L">>
Online == <<"O", "n", "l", "i", "n", "e">>
Unknown == <<"U", "n", "k", "n", "o", "w", "n">>
kw_rate == <<"r", "a", "t", "e">>
kw_rating == <<"r", "a", "t", "i", "n", "g">>
kw_delivery == <<"d", "e", "l", "i", "v", "e", "r", "y", " ", "o", "f", " ", "l", "e", "c", "t", "u", "r", "e">>
kw_lsc == <<"l", "e", "a", "r", "n", "e", "r", " ", "s", "u", "p", "p", "o", "r", "t", " ", "c", "e", "n", "t", "r", "e">>
col_source_file == <<"s", "o", "u", "r", "c", "e", "_", "f", "i", "l", "e">>
col_mode == <<"m", "o", "d", "e">>
ParamKeywords ==     <<<<"e", "a", "s", "e">>, <<"a", "d", "m", "i", "s", "s", "i", "o", "n">>, <<"s", "u", "p", "p", "o", "r", "t">>, <<"s", "y", "l", "l", "a", "b", "u", "s">>, <<"c", "u", "r", "r", "i", "c", "u", "l", "u", "m">>, <<"s", "e", "l", "f", "-", "l", "e", "a", "r", "n", "i", "n", "g">>, <<"q", "u", "a", "l", "i", "t", "y">>>>

(* ------------------------------- cells ---------------------------------- *)
\* A cell is missing (NaN), a number, or a text.
NaN == [k |-> "nan", v |-> 0, s |-> <<>>]

Num(n) == [k |-> "num", v |-> n, s |-> <<>>]

Str(t) == [k |-> "str", v |-> 0, s |-> t]

\* the texts pd.to_numeric parses, among the texts of the model: digits,
\* with blanks around them allowed
IsNumericText(t) ==
    LET u == Strip(t) IN u # <<>> /\ \A i \in 1..Len(u) : IsDigit(u[i])

\* pd.to_numeric(x, errors="coerce") of one value
to_numeric(c) ==
    IF c.k = "num" THEN c
    ELSE IF c.k = "str" /\ IsNumericText(c.s) THEN Num(DigitsVal(Strip(c.s)))
    ELSE NaN

\* safe_num of a Series
safe_num(s) == [i \in 1..Len(s) |-> to_numeric(s[i])]

\* Series.notna().sum()
NotnaSum(s) == Cardinality({i \in 1..Len(s) : s[i].k # "nan"})

\* Series.dropna()
RECURSIVE dropna(_)
dropna(s) ==
    IF s = <<>> THEN <<>>
    ELSE IF s[1].k = "nan" THEN dropna(Tail(s)) ELSE <<s[1]>> \o dropna(Tail(s))

(* ------------------------------ tables ---------------------------------- *)
\* A DataFrame: the column identifiers in order, and the rows, each a
\* sequence of cells aligned with the columns.
EmptyFrame == [cols |-> <<>>, rows |-> <<>>]

HasCol(t, c) == \E i \in 1..Len(t.cols) : t.cols[i] = c

\* Index.get_loc
get_loc(t, c) == CHOOSE i \in 1..Len(t.cols) : t.cols[i] = c

\* t[c], a Series
Column(t, c) == [r \in 1..Len(t.rows) |-> t.rows[r][get_loc(t, c)]]

\* t[c] = vals: replaces the column where it exists, appends it otherwise
SetColumn(t, c, vals) ==
    IF HasCol(t, c)
    THEN [cols |-> t.cols,
          rows |-> [r \in 1..Len(t.rows) |->
                      [j \in 1..Len(t.cols) |->
                          IF j = get_loc(t, c) THEN vals[r] ELSE t.rows[r][j]]]]
    ELSE [cols |-> Append(t.cols, c),
          rows |-> [r \in 1..Len(t.rows) |-> Append(t.rows[r], vals[r])]]

\* the elements of s at the positions in keep, in order
RECURSIVE PickFrom(_, _, _)
PickFrom(s, keep, i) ==
    IF i > Len(s) THEN <<>>
    ELSE (IF i \in keep THEN <<s[i]>> ELSE <<>>) \o PickFrom(s, keep, i + 1)

Pick(s, keep) == PickFrom(s, keep, 1)

\* the distinct values of a sequence, in order of first appearance
RECURSIVE Unique(_)
Unique(s) ==
    IF s = <<>> THEN <<>>
    ELSE LET u == Unique(SubSeq(s, 1, Len(s) - 1))
         IN  IF \E i \in 1..Len(u) : u[i] = s[Len(s)] THEN u ELSE Append(u, s[Len(s)])

\* the dtype pandas gives a column of the unified table
Dtype(t, c) ==
    LET s == Column(t, c)
    IN  IF \E i \in 1..Len(s) : s[i].k = "str" THEN "object"
        ELSE IF \E i \in 1..Len(s) : s[i].k = "nan" THEN "float64"
        ELSE "int64"

\* astype(str) of one present value of a column of that dtype
astype_str(c, dtype) ==
    IF c.k = "str" THEN c.s
    ELSE IF dtype = "float64" THEN IntText(c.v) \o <<".", "0">>
    ELSE IntText(c.v)

(* ------------------------------ numbers --------------------------------- *)
RECURSIVE GCD(_, _)
GCD(a, b) == IF b = 0 THEN a ELSE GCD(b, a % b)

\* the undefined (NaN) result of a mean over no value
Undefined == [def |-> FALSE, n |-> 0, d |-> 1]

\* the number n/d, in lowest terms
Rat(n, d) == [def |-> TRUE, n |-> n \div GCD(n, d), d |-> d \div GCD(n, d)]

RECURSIVE SumVals(_)
SumVals(s) == IF s = <<>> THEN 0 ELSE s[1].v + SumVals(Tail(s))

\* mean, with 0 for the mean of no value
mean_zero_when_empty(s) ==
    LET p == dropna(s) IN IF p = <<>> THEN Rat(0, 1) ELSE Rat(SumVals(p), Len(p))

\* Series.mean() of a numeric Series: over the present values only
mean(s) ==
    LET p == dropna(s) IN IF p = <<>> THEN Undefined ELSE Rat(SumVals(p), Len(p))

\* round(x, 2): to hundredths, a tie going to the even neighbour; NaN stays NaN
round2(x) ==
    IF ~x.def THEN Undefined
    ELSE LET q == (100 * x.n) \div x.d
             r == (100 * x.n) % x.d
         IN  IF 2 * r > x.d \/ (2 * r = x.d /\ q % 2 = 1)
             THEN Rat(q + 1, 100) ELSE Rat(q, 100)

(* --------------------------- mode classifier ---------------------------- *)
\* detect_mode, with the dtl check ahead of the distance check
detect_mode_dtl_first(x0) ==
    LET x == Lower(x0)
    IN  IF Contains(kw_dtl, x) THEN DTL
        ELSE IF Contains(kw_distance, x) THEN Distance
        ELSE IF Contains(kw_online, x) THEN Online
        ELSE Unknown

detect_mode(x0) ==
    LET x == Lower(x0)
    IN  IF Contains(kw_distance, x) THEN Distance
        ELSE IF Contains(kw_dtl, x) THEN DTL
        ELSE IF Contains(kw_online, x) THEN Online
        ELSE Unknown

(* -------------------------------- load ---------------------------------- *)
\* df.columns.astype(str).str.strip().str.lower()
NormalizeColumns(cols) == [i \in 1..Len(cols) |-> Lower(Strip(cols[i]))]

\* one iteration of the load loop on a file that parses
LoadedFrame(f) ==
    SetColumn([cols |-> NormalizeColumns(f.cols), rows |-> f.rows],
              col_source_file, [r \in 1..Len(f.rows) |-> Str(f.name)])

RECURSIVE AllCols(_)
AllCols(ds) == IF ds = <<>> THEN <<>> ELSE ds[1].cols \o AllCols(Tail(ds))

\* the rows of one frame laid out on the columns of the union
Reindex(df, cols) ==
    [r \in 1..Len(df.rows) |->
        [j \in 1..Len(cols) |->
            IF HasCol(df, cols[j]) THEN df.rows[r][get_loc(df, cols[j])] ELSE NaN]]

RECURSIVE ConcatRows(_, _)
ConcatRows(ds, cols) ==
    IF ds = <<>> THEN <<>> ELSE Reindex(ds[1], cols) \o ConcatRows(Tail(ds), cols)

\* pd.concat(dfs, ignore_index=True): the union of the columns in order of
\* first appearance, the rows in source order, absent cells missing
concat(ds) ==
    LET cols == Unique(AllCols(ds)) IN [cols |-> cols, rows |-> ConcatRows(ds, cols)]

\* t[t[c].isin(sel)]
FilterIsin(t, c, sel) ==
    [cols |-> t.cols,
     rows |-> Pick(t.rows, {r \in 1..Len(t.rows) : Column(t, c)[r].s \in sel})]

\* t[c].unique(), as a set of texts
UniqueTexts(t, c) == {Column(t, c)[r].s : r \in 1..Len(t.rows)}

(* ------------------------------ sections -------------------------------- *)
Sections == {"overview", "delivery", "lsc", "master", "subject"}

NoResult == [kind |-> "none"]

\* the first column whose identifier contains kw, 0 when there is none
FirstColWith(t, kw) ==
    LET hits == {i \in 1..Len(t.cols) : Contains(kw, t.cols[i])}
    IN  IF hits = {} THEN 0 ELSE CHOOSE i \in hits : \A j \in hits : i <= j

\* TAB 1: the identifiers with "rate" or "rating"
rating_cols(t) ==
    Pick(t.cols, {i \in 1..Len(t.cols) :
                    Contains(kw_rate, t.cols[i]) \/ Contains(kw_rating, t.cols[i])})

\* DataFrame.stack() of t[cols].apply(safe_num): the present values, row by row
RECURSIVE StackRows(_, _, _)
StackRows(t, cols, r) ==
    IF r > Len(t.rows) THEN <<>>
    ELSE dropna([j \in 1..Len(cols) |-> safe_num(Column(t, cols[j]))[r]])
         \o StackRows(t, cols, r + 1)

\* Stack, with the missing values kept as zeros
RECURSIVE StackRowsFilled(_, _, _)
StackRowsFilled(t, cols, r) ==
    IF r > Len(t.rows) THEN <<>>
    ELSE [j \in 1..Len(cols) |->
            IF safe_num(Column(t, cols[j]))[r].k = "nan" THEN Num(0)
            ELSE safe_num(Column(t, cols[j]))[r]]
         \o StackRowsFilled(t, cols, r + 1)

StackFillZero(t, cols) == StackRowsFilled(t, cols, 1)

Stack(t, cols) == StackRows(t, cols, 1)

overall_avg(t) == mean(Stack(t, rating_cols(t)))

\* sorted(): the texts of a set in increasing order
RECURSIVE SortTexts(_)
SortTexts(S) ==
    IF S = {} THEN <<>>
    ELSE LET m == CHOOSE x \in S : \A y \in S \ {x} : TextLess(x, y)
         IN  <<m>> \o SortTexts(S \ {m})

\* GroupMeans, with the rows that have no number dropped before grouping
GroupMeansDropna(t, col) ==
    LET val  == safe_num(Column(t, col))
        has  == {r \in 1..Len(t.rows) : val[r].k = "num"}
        keys == SortTexts({Column(t, col_source_file)[r].s : r \in has})
        grp(g) == Pick(val, {r \in has : Column(t, col_source_file)[r].s = g})
    IN  [i \in 1..Len(keys) |-> [source_file |-> keys[i], avg |-> mean(grp(keys[i]))]]

\* TAB 2: groupby("source_file")["val"].mean(), the groups in sorted order
GroupMeans(t, col) ==
    LET keys == SortTexts(UniqueTexts(t, col_source_file))
        val  == safe_num(Column(t, col))
        grp(g) == Pick(val, {r \in 1..Len(t.rows) : Column(t, col_source_file)[r].s = g})
    IN  [i \in 1..Len(keys) |-> [source_file |-> keys[i], avg |-> mean(grp(keys[i]))]]

\* LscValues, without the restriction to the Distance rows
LscValuesAllModes(t, d) ==
    LET p == dropna(Column(t, kw_lsc))
    IN  [i \in 1..Len(p) |-> Strip(astype_str(p[i], Dtype(d, kw_lsc)))]

\* TAB 3: the Distance rows' values, present ones only, as stripped text
LscValues(t, d) ==
    LET s    == Column(t, kw_lsc)
        keep == {r \in 1..Len(t.rows) : Column(t, col_mode)[r].s = Distance}
        p    == dropna(Pick(s, keep))
    IN  [i \in 1..Len(p) |-> Strip(astype_str(p[i], Dtype(d, kw_lsc)))]

Count(s, x) == Cardinality({i \in 1..Len(s) : s[i] = x})

\* stable sort of (key, count) rows by descending count
RECURSIVE SortByCount(_)
SortByCount(rows) ==
    IF rows = <<>> THEN <<>>
    ELSE LET top == CHOOSE i \in 1..Len(rows) :
                        /\ \A j \in 1..Len(rows) : rows[j].n <= rows[i].n
                        /\ \A j \in 1..(i - 1) : rows[j].n < rows[i].n
         IN  <<rows[top]>> \o SortByCount(Pick(rows, (1..Len(rows)) \ {top}))

\* Series.value_counts()
value_counts(s) ==
    LET keys == Unique(s)
    IN  SortByCount([i \in 1..Len(keys) |-> [key |-> keys[i], n |-> Count(s, keys[i])]])

\* TAB 4: the keyword-named columns that have a number, with their average
IsParamName(c) == \E k \in 1..Len(ParamKeywords) : Contains(ParamKeywords[k], c)

\* params, without the test for a number
params_by_name_only(t) ==
    LET cs == Pick(t.cols, {i \in 1..Len(t.cols) : IsParamName(t.cols[i])})
    IN  [i \in 1..Len(cs) |->
            [Parameter |-> cs[i], avg |-> round2(mean(safe_num(Column(t, cs[i]))))]]

params(t) ==
    LET keep == {i \in 1..Len(t.cols) :
                    /\ IsParamName(t.cols[i])
                    /\ NotnaSum(safe_num(Column(t, t.cols[i]))) > 0}
        cs   == Pick(t.cols, keep)
    IN  [i \in 1..Len(cs) |->
            [Parameter |-> cs[i], avg |-> round2(mean(safe_num(Column(t, cs[i]))))]]

\* TAB 5: the scan of the columns after the anchor, to the first without a number
RECURSIVE ScanSubjects(_, _)
ScanSubjects(t, i) ==
    IF i > Len(t.cols) THEN <<>>
    ELSE IF NotnaSum(safe_num(Column(t, t.cols[i]))) > 0
         THEN <<t.cols[i]>> \o ScanSubjects(t, i + 1)
         ELSE <<>>

\* SubjectCols, with a column without a number skipped instead of ending the scan
SubjectColsSkipGaps(t, section) ==
    Pick(t.cols, {i \in (get_loc(t, section) + 1)..Len(t.cols) :
                    NotnaSum(safe_num(Column(t, t.cols[i]))) > 0})

SubjectCols(t, section) == ScanSubjects(t, get_loc(t, section) + 1)

\* SubjectNames, with the name taken among the numbers of the column
SubjectNamesOfNumbers(t, d, c) ==
    LET p == dropna(safe_num(Column(t, c)))
    IN  [i \in 1..Len(p) |-> astype_str(p[i], Dtype(d, c))]

\* TAB 5: filtered[c].dropna().astype(str), of which .iloc[0] is the name
SubjectNames(t, d, c) ==
    LET p == dropna(Column(t, c)) IN [i \in 1..Len(p) |-> astype_str(p[i], Dtype(d, c))]

SubjectRow(t, d, c) ==
    [Subject |-> SubjectNames(t, d, c)[1], avg |-> round2(mean(safe_num(Column(t, c))))]

(* ------------------------------- inputs --------------------------------- *)
\* An uploaded file: its name, whether it parses as a table, its header as
\* written in the file and its rows.  The header identifiers of one file are
\* distinct after normalisation.
RawAnchor == <<" ", "D", "e", "l", "i", "v", "e", "r", "y", " ", "o", "f", " ", "L", "e", "c", "t", "u", "r", "e", " ">>
RawRate == <<"R", "a", "t", "e">>
RawRating == <<"O", "v", "e", "r", "a", "l", "l", " ", "R", "a", "t", "i", "n", "g", " ">>
RawLsc == <<"L", "e", "a", "r", "n", "e", "r", " ", "S", "u", "p", "p", "o", "r", "t", " ", "C", "e", "n", "t", "r", "e">>
RawEase == <<"E", "a", "s", "e", " ", "o", "f", " ", "A", "d", "m", "i", "s", "s", "i", "o", "n">>
RawQuality == <<" ", "S", "y", "l", "l", "a", "b", "u", "s", " ", "Q", "u", "a", "l", "i", "t", "y">>
RawRemarks == <<"R", "e", "m", "a", "r", "k", "s">>
RawS1 == <<"S", "1">>
RawS2 == <<"S", "2">>
RawS3 == <<"S", "3">>
RawS4 == <<"S", "4">>
n_distance == <<"d", "i", "s", "t", "a", "n", "c", "e", ".", "c", "s", "v">>
n_dtl == <<"D", "T", "L", ".", "x", "l", "s", "x">>
n_online == <<"o", "n", "l", "i", "n", "e", ".", "c", "s", "v">>
n_bad == <<"b", "r", "o", "k", "e", "n", ".", "c", "s", "v">>
ext_csv == <<".", "c", "s", "v">>
tok_Distance == <<"D", "i", "s", "t", "a", "n", "c", "e">>
tok_dtl == <<"d", "t", "l">>
tok_ONLINE == <<"O", "N", "L", "I", "N", "E">>
tok_dist == <<"d", "i", "s", "t">>
tok_ance == <<"a", "n", "c", "e">>
tok_x == <<"x", "_">>
txt_x == <<"x">>
txt_xsp == <<" ", "x", " ">>
txt_X == <<"X">>
txt_3 == <<"3">>

Column_(name, vals) == [name |-> name, vals |-> vals]

RECURSIVE RowSet(_)
RowSet(schema) ==
    IF schema = <<>> THEN {<<>>}
    ELSE {<<v>> \o r : v \in schema[1].vals, r \in RowSet(Tail(schema))}

RECURSIVE Tables(_, _)
Tables(schema, n) ==
    IF n = 0 THEN {<<>>}
    ELSE {Append(t, r) : t \in Tables(schema, n - 1), r \in RowSet(schema)}

File(name, cols, rows) == [name |-> name, ok |-> TRUE, cols |-> cols, rows |-> rows]

\* a file that does not parse as tabular data
Unparseable(name) == [name |-> name, ok |-> FALSE, cols |-> <<>>, rows |-> <<>>]

\* the files of a schema, of every content up to MaxRows rows
FilesOf(names, schema) ==
    {File(nm, [j \in 1..Len(schema) |-> schema[j].name], rows) :
        nm \in names, rows \in UNION {Tables(schema, n) : n \in 0..MaxRows}}

\* the sequences of up to n different elements of S
RECURSIVE SeqsUpTo(_, _)
SeqsUpTo(S, n) ==
    IF n = 0 THEN {<<>>}
    ELSE LET shorter == SeqsUpTo(S, n - 1)
         IN  shorter \cup
             UNION {{Append(s, x) : x \in S \ {s[i] : i \in 1..Len(s)}} : s \in shorter}

\* the uploads of one file of F together with up to MaxFiles - 1 of C, before
\* or after it
With(F, C) ==
    {<<f>> \o cs : f \in F, cs \in SeqsUpTo(C, MaxFiles - 1)}
        \cup {cs \o <<f>> : f \in F, cs \in SeqsUpTo(C, MaxFiles - 1)}

RECURSIVE Join(_)
Join(ts) == IF ts = <<>> THEN <<>> ELSE ts[1] \o Join(Tail(ts))

\* origin identifiers assembled from words in either case
OriginNames ==
    {Join(ts) \o ext_csv :
        ts \in SeqsUpTo({tok_Distance, tok_dtl, tok_ONLINE, tok_dist, tok_ance, tok_x},
                        MaxTokens) \ {<<>>}}

\* one small file under each of these names
ModeUploads ==
    {<<File(nm, <<RawRate>>, <<<<Num(4)>>>>)>> : nm \in OriginNames}

\* the anchor first, in the middle and last, followed by columns with and
\* without numbers
SubjectUploads ==
    {<<f>> : f \in
        FilesOf({n_distance},
                <<Column_(RawAnchor, {Num(3)}),
                  Column_(RawS1, {Num(4), Str(txt_x)}),
                  Column_(RawS2, {Num(4), NaN}),
                  Column_(RawS3, {Str(txt_x), Num(4)}),
                  Column_(RawS4, {Num(5)})>>)
        \cup FilesOf({n_distance},
                <<Column_(RawS1, {Num(4), NaN}),
                  Column_(RawAnchor, {Num(3)}),
                  Column_(RawS2, {Str(txt_3), NaN})>>)
        \cup FilesOf({n_distance},
                <<Column_(RawRate, {Num(4), Str(txt_x)}),
                  Column_(RawAnchor, {Num(3), NaN})>>)}

\* two rating columns holding numbers, numeric and other texts and gaps,
\* beside a number column of another name
RatingUploads ==
    {<<f>> : f \in
        FilesOf({n_distance},
                <<Column_(RawRate, {Num(1), Str(txt_x), Str(txt_3)}),
                  Column_(RawRating, {NaN, Num(4)}),
                  Column_(RawRemarks, {Num(5)})>>)}

\* the anchor column in one file of any content, uploaded with files of the
\* same origin, of another schema, or unparseable
PerFileUploads ==
    With(FilesOf({n_distance, n_dtl},
                 <<Column_(RawAnchor, {Str(txt_x), Num(3), Num(4)})>>),
         {File(n_dtl, <<RawAnchor>>, <<<<Num(1)>>, <<Num(2)>>>>),
          File(n_online, <<RawQuality>>, <<<<Num(4)>>>>),
          Unparseable(n_bad)})

\* the learner-support column in a Distance file of any content, uploaded
\* with a DTL file and a second Distance file
LscUploads ==
    With(FilesOf({n_distance},
                 <<Column_(RawLsc, {NaN, Str(txt_x), Str(txt_xsp), Str(txt_X)})>>),
         {File(n_dtl, <<RawLsc>>, <<<<Str(txt_x)>>>>),
          File(tok_Distance \o ext_csv, <<RawLsc>>, <<<<Str(txt_X)>>, <<Str(txt_X)>>>>)})

\* keyword-named columns with and without numbers
ParamUploads ==
    {<<f>> : f \in
        FilesOf({n_online},
                <<Column_(RawEase, {Num(4), Str(txt_x)}),
                  Column_(RawQuality, {NaN, Str(txt_3)}),
                  Column_(RawLsc, {Str(txt_x)}),
                  Column_(RawRemarks, {Num(4)})>>)}

Uploads ==
    {<<>>} \cup ModeUploads \cup SubjectUploads \cup RatingUploads
           \cup PerFileUploads \cup LscUploads \cup ParamUploads

(* ------------------------------- the run -------------------------------- *)
Init ==
    /\ pc = "upload"
    /\ files = <<>>
    /\ dfs = <<>>
    /\ data = EmptyFrame
    /\ modes = {}
    /\ files_sel = {}
    /\ filtered = EmptyFrame
    /\ subject_cols = <<>>
    /\ result = [s \in Sections |-> NoResult]

\* st.file_uploader; st.stop() when nothing is uploaded
Upload ==
    /\ pc = "upload"
    /\ \E fs \in Uploads :
          /\ files' = fs
          /\ pc' = IF fs = <<>> THEN "stopped" ELSE "load"
    /\ UNCHANGED <<dfs, data, modes, files_sel, filtered, subject_cols, result>>

\* one iteration of the load loop; a file that does not parse raises out of
\* the script
LoadFile ==
    /\ pc = "load"
    /\ Len(dfs) < Len(files)
    /\ LET f == files[Len(dfs) + 1]
       IN  IF f.ok
           THEN dfs' = Append(dfs, LoadedFrame(f)) /\ pc' = "load"
           ELSE dfs' = dfs /\ pc' = "crashed"
    /\ UNCHANGED <<files, data, modes, files_sel, filtered, subject_cols, result>>

Concat ==
    /\ pc = "load"
    /\ Len(dfs) = Len(files)
    /\ data' = concat(dfs)
    /\ pc' = "classify"
    /\ UNCHANGED <<files, dfs, modes, files_sel, filtered, subject_cols, result>>

\* data["mode"] = data["source_file"].apply(detect_mode)
ClassifyMode ==
    /\ pc = "classify"
    /\ data' = SetColumn(data, col_mode,
                  [r \in 1..Len(data.rows) |->
                      Str(detect_mode(Column(data, col_source_file)[r].s))])
    /\ pc' = "select_modes"
    /\ UNCHANGED <<files, dfs, modes, files_sel, filtered, subject_cols, result>>

\* the Mode multiselect and the first filter
SelectModes ==
    /\ pc = "select_modes"
    /\ \E sel \in SUBSET UniqueTexts(data, col_mode) :
          /\ modes' = sel
          /\ filtered' = FilterIsin(data, col_mode, sel)
    /\ pc' = "select_files"
    /\ UNCHANGED <<files, dfs, data, files_sel, subject_cols, result>>

\* the Programme / File multiselect and the second filter
SelectFiles ==
    /\ pc = "select_files"
    /\ \E sel \in SUBSET UniqueTexts(filtered, col_source_file) :
          /\ files_sel' = sel
          /\ filtered' = FilterIsin(filtered, col_source_file, sel)
    /\ pc' = "tab1"
    /\ UNCHANGED <<files, dfs, data, modes, subject_cols, result>>

\* TAB 1 - overview
Tab1 ==
    /\ pc = "tab1"
    /\ result' = [result EXCEPT !["overview"] =
                    [kind |-> "ok",
                     total |-> Len(filtered.rows),
                     overall_avg |-> overall_avg(filtered),
                     shown |-> round2(overall_avg(filtered))]]
    /\ pc' = "tab2"
    /\ UNCHANGED <<files, dfs, data, modes, files_sel, filtered, subject_cols>>

\* Tab2, with st.stop() after its error as in TAB 5
Tab2Stops ==
    /\ pc = "tab2"
    /\ LET col == FirstColWith(filtered, kw_delivery)
       IN  /\ result' = [result EXCEPT !["delivery"] =
                           IF col = 0
                           THEN [kind |-> "not_found"]
                           ELSE [kind |-> "ok",
                                 rows |-> GroupMeans(filtered, filtered.cols[col])]]
           /\ pc' = IF col = 0 THEN "stopped" ELSE "tab3"
    /\ UNCHANGED <<files, dfs, data, modes, files_sel, filtered, subject_cols>>

\* TAB 2 - delivery of lecture, file-wise
Tab2 ==
    /\ pc = "tab2"
    /\ LET col == FirstColWith(filtered, kw_delivery)
       IN  result' = [result EXCEPT !["delivery"] =
                        IF col = 0
                        THEN [kind |-> "not_found"]
                        ELSE [kind |-> "ok",
                              rows |-> GroupMeans(filtered, filtered.cols[col])]]
    /\ pc' = "tab3"
    /\ UNCHANGED <<files, dfs, data, modes, files_sel, filtered, subject_cols>>

\* TAB 3 - learner support centre, Distance only
Tab3 ==
    /\ pc = "tab3"
    /\ result' = [result EXCEPT !["lsc"] =
                    IF ~HasCol(filtered, kw_lsc)
                    THEN [kind |-> "not_found"]
                    ELSE IF LscValues(filtered, data) = <<>>
                    THEN [kind |-> "empty"]
                    ELSE [kind |-> "ok", rows |-> value_counts(LscValues(filtered, data))]]
    /\ pc' = "tab4"
    /\ UNCHANGED <<files, dfs, data, modes, files_sel, filtered, subject_cols>>

\* TAB 4 - master dashboard
Tab4 ==
    /\ pc = "tab4"
    /\ result' = [result EXCEPT !["master"] = [kind |-> "ok", rows |-> params(filtered)]]
    /\ pc' = "tab5"
    /\ UNCHANGED <<files, dfs, data, modes, files_sel, filtered, subject_cols>>

\* TAB 5 - subject-wise comparison; st.stop() after either error, and an
\* exception when a block column has no present value to name it
Tab5 ==
    /\ pc = "tab5"
    /\ LET section == FirstColWith(filtered, kw_delivery)
           cols    == IF section = 0 THEN <<>>
                      ELSE SubjectCols(filtered, filtered.cols[section])
       IN  /\ subject_cols' = cols
           /\ IF section = 0
              THEN /\ result' = [result EXCEPT !["subject"] = [kind |-> "not_found"]]
                   /\ pc' = "stopped"
              ELSE IF cols = <<>>
              THEN /\ result' = [result EXCEPT !["subject"] = [kind |-> "empty"]]
                   /\ pc' = "stopped"
              ELSE IF \E i \in 1..Len(cols) : SubjectNames(filtered, data, cols[i]) = <<>>
              THEN /\ result' = [result EXCEPT !["subject"] = [kind |-> "exception"]]
                   /\ pc' = "crashed"
              ELSE /\ result' = [result EXCEPT !["subject"] =
                                   [kind |-> "ok",
                                    rows |-> [i \in 1..Len(cols) |->
                                                SubjectRow(filtered, data, cols[i])]]]
                   /\ pc' = "done"
    /\ UNCHANGED <<files, dfs, data, modes, files_sel, filtered>>

Next ==
    \/ Upload
    \/ LoadFile
    \/ Concat
    \/ ClassifyMode
    \/ SelectModes
    \/ SelectFiles
    \/ Tab1
    \/ Tab2
    \/ Tab3
    \/ Tab4
    \/ Tab5

Spec == Init /\ [][Next]_vars

(* ------------------------------- claims --------------------------------- *)
\* the column at position j of t has a value that coerces to a number
HasNumber(t, j) == \E r \in 1..Len(t.rows) : to_numeric(t.rows[r][j]).k = "num"

\* the filters have been applied in this run
Filtered ==
    \/ pc \in {"tab1", "tab2", "tab3", "tab4", "tab5", "done"}
    \/ pc \in {"stopped", "crashed"} /\ result["overview"].kind # "none"

Produced(s) == result[s].kind \in {"ok", "not_found", "empty"}

\* C1: once TAB 5 has scanned, the detected block is the run of columns that
\* starts right after the anchor, every one of them with a number, and that
\* ends at the end of the table or before the first column without a number.
C1_SubjectBlockIsMaximalRun ==
    result["subject"].kind \in {"ok", "empty", "exception"} =>
        LET a == FirstColWith(filtered, kw_delivery)
            n == Len(subject_cols)
        IN  /\ a > 0
            /\ a + n <= Len(filtered.cols)
            /\ \A i \in 1..n :
                  subject_cols[i] = filtered.cols[a + i] /\ HasNumber(filtered, a + i)
            /\ a + n < Len(filtered.cols) => ~HasNumber(filtered, a + n + 1)

\* [A(anchor), B(num), C(num), D(non-num), E(num)] has been scanned to [B, C]
C1_Witness ==
    /\ result["subject"].kind = "ok"
    /\ FirstColWith(filtered, kw_delivery) = 1
    /\ Len(subject_cols) = 2
    /\ ~HasNumber(filtered, 4)
    /\ HasNumber(filtered, 5)

\* each character of the model's texts with its lower-case form
FoldMap == [c \in {AsciiOrder[k] : k \in 1..Len(AsciiOrder)} |-> LowerChar(c)]

\* x contains the lower-case word w, letters compared without case
HasWord(x, w) ==
    \E i \in 1..(Len(x) - Len(w) + 1) : \A j \in 1..Len(w) : FoldMap[x[i + j - 1]] = w[j]

\* the mode the claim gives an origin
ClaimedMode(o) ==
    LET d == HasWord(o, kw_distance)
        t == HasWord(o, kw_dtl)
        n == HasWord(o, kw_online)
    IN  {m \in {Distance, DTL, Online, Unknown} :
            /\ d => m = Distance
            /\ ~d /\ t => m = DTL
            /\ ~d /\ ~t /\ n => m = Online
            /\ ~d /\ ~t /\ ~n => m = Unknown}

\* C2: every row of the unified table carries exactly one of the four modes,
\* decided on its origin without regard to case: Distance when it has
\* "distance", else DTL when it has "dtl", else Online when it has "online",
\* else Unknown.
C2_ModeClassification ==
    HasCol(data, col_mode) =>
        LET origin == Column(data, col_source_file)
            mode   == Column(data, col_mode)
        IN  \A r \in 1..Len(data.rows) : ClaimedMode(origin[r].s) = {mode[r].s}

\* an origin with "dtl" and, in upper case, "Distance" has been classified Distance
C2_Witness ==
    /\ HasCol(data, col_mode)
    /\ \E r \in 1..Len(data.rows) :
          LET o == Column(data, col_source_file)[r].s
          IN  /\ HasWord(o, kw_dtl)
              /\ HasWord(o, kw_distance)
              /\ ~Contains(kw_distance, o)
              /\ Column(data, col_mode)[r].s = Distance

\* the result of section s is its empty or undefined one
EmptyResult(s) ==
    LET x == result[s]
    IN  CASE s = "overview" -> x.kind = "ok" /\ x.total = 0 /\ ~x.overall_avg.def /\ ~x.shown.def
          [] s = "delivery" -> x.kind = "not_found" \/ (x.kind = "ok" /\ x.rows = <<>>)
          [] s = "lsc"      -> x.kind \in {"not_found", "empty"}
          [] s = "master"   -> x.kind = "ok" /\ x.rows = <<>>
          [] s = "subject"  -> x.kind \in {"not_found", "empty"}

\* C3: when the filters leave no row, the run raises no exception, every
\* section that has run holds its empty result (no rows, an undefined
\* average, or its not-found or empty signal), and at the end of the run
\* every section has run.
C3_ZeroRowsNeverFail ==
    Filtered /\ Len(filtered.rows) = 0 =>
        /\ pc # "crashed"
        /\ \A s \in Sections : result[s].kind # "none" => EmptyResult(s)
        /\ pc \in {"done", "stopped"} => \A s \in Sections : result[s].kind # "none"

\* a run over a table with rows has ended with every row filtered out
C3_Witness ==
    /\ pc = "stopped"
    /\ Len(data.rows) > 0
    /\ Len(filtered.rows) = 0
    /\ result["subject"].kind = "empty"
    /\ result["master"].kind = "ok"

\* C4: a file that does not parse does not end the run: the run goes on to
\* the unified table with every other file in it.
C4_ParseFailureNotFatal ==
    (\E i \in 1..Len(files) : ~files[i].ok) => pc # "crashed"

\* C5: when a section has signalled a missing column, an empty result or an
\* empty subject block, no exception ends the run, and at the end of the run
\* every section holds its result or its own signal.
C5_SectionIsolation ==
    (\E s \in Sections : result[s].kind \in {"not_found", "empty"}) =>
        /\ pc # "crashed"
        /\ pc \in {"done", "stopped"} => \A s \in Sections : Produced(s)

\* a run without the anchor column has ended with the value counts computed
C5_Witness ==
    /\ pc = "stopped"
    /\ result["delivery"].kind = "not_found"
    /\ result["lsc"].kind = "ok"
    /\ result["master"].kind = "ok"
    /\ result["subject"].kind = "not_found"

\* the positions (row, column) of the rating columns' values that coerce
RatingPool(t) ==
    {p \in (1..Len(t.rows)) \X (1..Len(t.cols)) :
        /\ Contains(kw_rate, t.cols[p[2]]) \/ Contains(kw_rating, t.cols[p[2]])
        /\ to_numeric(t.rows[p[1]][p[2]]).k = "num"}

RECURSIVE PoolSum(_, _)
PoolSum(t, P) ==
    IF P = {} THEN 0
    ELSE LET p == CHOOSE q \in P : TRUE
         IN  to_numeric(t.rows[p[1]][p[2]]).v + PoolSum(t, P \ {p})

\* C6: the overall average is the sum of the pool of coercible rating values
\* over the size of the pool, undefined when the pool is empty, and the
\* response count is the number of filtered rows.
C6_OverallAverage ==
    result["overview"].kind = "ok" =>
        LET P == RatingPool(filtered)
            x == result["overview"].overall_avg
        IN  /\ result["overview"].total = Len(filtered.rows)
            /\ x.def <=> P # {}
            /\ x.def => x.n * Cardinality(P) = x.d * PoolSum(filtered, P)

\* an average over a pool of two columns with a text and a missing value in
\* them, the pool differing in size from the row count
C6_Witness ==
    /\ result["overview"].kind = "ok"
    /\ result["overview"].overall_avg.def
    /\ result["overview"].overall_avg.d > 1
    /\ Cardinality(RatingPool(filtered)) # result["overview"].total
    /\ \E p, q \in RatingPool(filtered) : p[2] # q[2]
    /\ \E r \in 1..Len(filtered.rows), j \in 1..Len(filtered.cols) :
          /\ Contains(kw_rate, filtered.cols[j])
          /\ filtered.rows[r][j].k = "str"
          /\ to_numeric(filtered.rows[r][j]).k = "nan"

\* the rows of origin g, and those of them whose anchor value coerces
RowsOf(t, g) == {r \in 1..Len(t.rows) : Column(t, col_source_file)[r].s = g}

RECURSIVE ColSum(_, _, _)
ColSum(t, j, R) ==
    IF R = {} THEN 0
    ELSE LET r == CHOOSE q \in R : TRUE
         IN  to_numeric(t.rows[r][j]).v + ColSum(t, j, R \ {r})

\* C7: with the anchor column present, the per-file result has one row for
\* each origin of the filtered table and no other, each with the mean of the
\* origin's coercible anchor values, undefined when it has none.
C7_PerFileAverage ==
    result["delivery"].kind # "none" /\ FirstColWith(filtered, kw_delivery) > 0 =>
        LET a    == FirstColWith(filtered, kw_delivery)
            rows == result["delivery"].rows
        IN  /\ result["delivery"].kind = "ok"
            /\ {rows[i].source_file : i \in 1..Len(rows)} = UniqueTexts(filtered, col_source_file)
            /\ Len(rows) = Cardinality(UniqueTexts(filtered, col_source_file))
            /\ \A i \in 1..Len(rows) :
                  LET R == {r \in RowsOf(filtered, rows[i].source_file) : to_numeric(filtered.rows[r][a]).k = "num"}
                      x == rows[i].avg
                  IN  /\ x.def <=> R # {}
                      /\ x.def => x.n * Cardinality(R) = x.d * ColSum(filtered, a, R)

\* two origins, one averaging 1.5 and one without any number
C7_Witness ==
    /\ result["delivery"].kind = "ok"
    /\ Len(result["delivery"].rows) = 2
    /\ \E i, j \in 1..2 :
          /\ result["delivery"].rows[i].avg = Rat(3, 2)
          /\ ~result["delivery"].rows[j].avg.def

\* the Distance rows with a present learner-support value
LscRows(t) ==
    {r \in 1..Len(t.rows) :
        /\ Column(t, col_mode)[r].s = Distance
        /\ Column(t, kw_lsc)[r].k # "nan"}

\* the text such a value is counted under
LscKey(t, d, r) == Strip(astype_str(Column(t, kw_lsc)[r], Dtype(d, kw_lsc)))

RECURSIVE SumN(_)
SumN(rows) == IF rows = <<>> THEN 0 ELSE rows[1].n + SumN(Tail(rows))

\* C8: the value counts have one row for each distinct trimmed, case-kept
\* text among the present values of the Distance rows, with the number of
\* those rows as its count; the counts add up to the number of those rows
\* and do not increase down the result.
C8_ValueCounts ==
    result["lsc"].kind = "ok" =>
        LET rows == result["lsc"].rows
            D    == LscRows(filtered)
        IN  /\ \A i, j \in 1..Len(rows) : rows[i].key = rows[j].key => i = j
            /\ \A i \in 1..Len(rows) :
                  /\ rows[i].n > 0
                  /\ rows[i].n = Cardinality({r \in D : LscKey(filtered, data, r) = rows[i].key})
            /\ \A r \in D : \E i \in 1..Len(rows) : rows[i].key = LscKey(filtered, data, r)
            /\ SumN(rows) = Cardinality(D)
            /\ \A i, j \in 1..Len(rows) : i < j => rows[i].n >= rows[j].n

\* " x " counted under "x", "X" under its own key, a row of another mode
\* left out
C8_Witness ==
    /\ result["lsc"].kind = "ok"
    /\ \E i, j \in 1..Len(result["lsc"].rows) :
          /\ result["lsc"].rows[i].key = txt_x
          /\ result["lsc"].rows[j].key = txt_X
    /\ \E r \in LscRows(filtered) : Column(filtered, kw_lsc)[r] = Str(txt_xsp)
    /\ \E r \in 1..Len(filtered.rows) :
          /\ Column(filtered, col_mode)[r].s # Distance
          /\ Column(filtered, kw_lsc)[r].k # "nan"

\* C9: the master result has a row for a column exactly when the column's
\* identifier has one of the seven keywords and the column has a coercible
\* value in the filtered table; every row's average is defined.
C9_ParameterColumns ==
    result["master"].kind = "ok" =>
        LET rows == result["master"].rows
        IN  /\ \A j \in 1..Len(filtered.cols) :
                  (\E i \in 1..Len(rows) : rows[i].Parameter = filtered.cols[j])
                      <=> /\ \E k \in 1..Len(ParamKeywords) :
                                Contains(ParamKeywords[k], filtered.cols[j])
                          /\ HasNumber(filtered, j)
            /\ \A i \in 1..Len(rows) :
                  /\ rows[i].avg.def
                  /\ \E j \in 1..Len(filtered.cols) : rows[i].Parameter = filtered.cols[j]
            /\ \A i, j \in 1..Len(rows) : rows[i].Parameter = rows[j].Parameter => i = j

\* a keyword-named column without a number left out beside one kept, with a
\* number column of another name
C9_Witness ==
    /\ result["master"].kind = "ok"
    /\ Len(result["master"].rows) > 0
    /\ \E j \in 1..Len(filtered.cols) :
          /\ IsParamName(filtered.cols[j])
          /\ ~HasNumber(filtered, j)
          /\ \E r \in 1..Len(filtered.rows) : filtered.rows[r][j].k = "str"
    /\ \E j \in 1..Len(filtered.cols) : ~IsParamName(filtered.cols[j]) /\ HasNumber(filtered, j)

\* the first present cell of column j of t
FirstPresent(t, j) ==
    t.rows[CHOOSE r \in 1..Len(t.rows) :
              /\ t.rows[r][j].k # "nan"
              /\ \A q \in 1..(r - 1) : t.rows[q][j].k = "nan"][j]

\* C10: TAB 5 never fails on the name of a block column; its result has one
\* row per block column, in block order, whose name is the first present
\* value of the column in row order: that text itself, or the number written
\* out as text.
C10_SubjectNames ==
    /\ result["subject"].kind # "exception"
    /\ result["subject"].kind = "ok" =>
          LET rows == result["subject"].rows
          IN  /\ Len(rows) = Len(subject_cols)
              /\ Len(rows) > 0
              /\ \A i \in 1..Len(rows) :
                    LET j == get_loc(filtered, subject_cols[i])
                    IN  /\ \E r \in 1..Len(filtered.rows) : filtered.rows[r][j].k # "nan"
                        /\ LET c == FirstPresent(filtered, j)
                           IN  IF c.k = "str" THEN rows[i].Subject = c.s
                               ELSE rows[i].Subject \in
                                       {IntText(c.v), IntText(c.v) \o <<".", "0">>}

\* a block of two columns, one named by a text ahead of its number and one
\* by a number after a missing value
C10_Witness ==
    /\ result["subject"].kind = "ok"
    /\ Len(result["subject"].rows) = 2
    /\ result["subject"].rows[1].Subject = txt_x
    /\ filtered.rows[1][get_loc(filtered, subject_cols[2])].k = "nan"

====
